---- MODULE Spec2Model ----
(***************************************************************************)
(* Price-driven heat pump control (src/app.py).                            *)
(*                                                                         *)
(* Units.  Prices and thresholds are floats in the code (ore/kWh).  They   *)
(* are modelled as records [nan, v]: v counts hundredths of an ore (the    *)
(* resolution of round(x, 2)), nan marks the IEEE not-a-number value that  *)
(* float() produces for "nan".  Feed prices (SEK_per_kWh) are counted in   *)
(* units of 0.00001 SEK, so that the conversion *100 and the rounding to   *)
(* two decimals are a real computation.                                    *)
(***************************************************************************)
EXTENDS Integers, Sequences, FiniteSets, TLC

VARIABLES
    MIN_TEMP,      \* app.py:27, read from the environment at import
    DEFAULT_TEMP,  \* app.py:28
    pris_start,    \* app.py:29, module global, float record
    pris_stopp,    \* app.py:30
    ac,            \* acState last accepted by the Sensibo API: [on, temp]
    op,            \* the handler that ran last
    req,           \* JSON body of the last set_terskel request
    calls,         \* outbound HTTP requests made by the last handler, in order
    hent,          \* what hent_strompris did in the last handler
    resp,          \* HTTP response of the last handler
    pc,            \* per request thread: position in its handler
    loc            \* per request thread: local variables of its handler

vars == <<MIN_TEMP, DEFAULT_TEMP, pris_start, pris_stopp, ac, op, req, calls,
          hent, resp, pc, loc>>

(***************************************************************************)
(* Bounds of the model.                                                    *)
(***************************************************************************)
MaxTerskel == 3      \* submitted thresholds range over 0, 5, .. 5*MaxTerskel ore
MaxLen == 2          \* feed lists have 20 .. 20+MaxLen entries

(***************************************************************************)
(* Floats.                                                                 *)
(***************************************************************************)
Num(n) == [nan |-> FALSE, v |-> n]
NaN == [nan |-> TRUE, v |-> 0]

\* IEEE comparisons: every ordered comparison with NaN is false.
FLt(a, b) == ~a.nan /\ ~b.nan /\ a.v < b.v
FGt(a, b) == ~a.nan /\ ~b.nan /\ a.v > b.v
FLe(a, b) == ~a.nan /\ ~b.nan /\ a.v <= b.v
FGe(a, b) == ~a.nan /\ ~b.nan /\ a.v >= b.v

(***************************************************************************)
(* JSON values of a request body, and Python's float() on them.            *)
(*   num : a JSON number          str : a string holding a number ("5")    *)
(*   nan : the literal NaN or the string "nan"                             *)
(*   txt : a string that is no number ("abc")      null : JSON null        *)
(***************************************************************************)
JNum(n) == [k |-> "num", v |-> n]
JStr(n) == [k |-> "str", v |-> n]
JNaN == [k |-> "nan", v |-> 0]
JTxt == [k |-> "txt", v |-> 0]
JNull == [k |-> "null", v |-> 0]

float(x) ==
    CASE x.k \in {"num", "str"} -> [ok |-> TRUE, val |-> Num(x.v), err |-> "none"]
      [] x.k = "nan" -> [ok |-> TRUE, val |-> NaN, err |-> "none"]
      [] x.k = "txt" -> [ok |-> FALSE, val |-> NaN, err |-> "ValueError"]
      [] x.k = "null" -> [ok |-> FALSE, val |-> NaN, err |-> "TypeError"]

(***************************************************************************)
(* Outbound HTTP.                                                          *)
(*   ok        : 2xx                                                       *)
(*   transport : ConnectionError / Timeout raised by requests              *)
(*   http      : non-2xx, raise_for_status raises HTTPError                *)
(***************************************************************************)
Outcomes == {"ok", "transport", "http"}

Get(url, o) == [method |-> "GET", url |-> url, on |-> FALSE, temp |-> 0, outcome |-> o]
Post(on, t, o) == [method |-> "POST", url |-> "acStates", on |-> on, temp |-> t, outcome |-> o]

NoResp == [code |-> 0, body |-> "none", start |-> Num(0), stop |-> Num(0), pris |-> 0]
NoHent == [ret |-> "idle", pris |-> 0, cmd |-> "none", logg |-> {}, feil |-> "none"]
NoReq == [given |-> FALSE, has_start |-> FALSE, has_stopp |-> FALSE,
          start |-> JNull, stopp |-> JNull]

\* mutant: the payload flips the power state instead of setting it
set_ac_state_veksler(state, temperature, v, p) ==
    IF v # "ok"
    THEN [ret |-> FALSE, calls |-> <<Get("pods", v)>>, ac |-> ac]
    ELSE IF state /\ temperature < MIN_TEMP
    THEN [ret |-> FALSE, calls |-> <<Get("pods", "ok")>>, ac |-> ac]
    ELSE LET target == IF state THEN temperature ELSE DEFAULT_TEMP
         IN  [ret |-> (p = "ok"),
              calls |-> <<Get("pods", "ok"), Post(state, target, p)>>,
              ac |-> IF p = "ok" THEN [on |-> ~ac.on, temp |-> target] ELSE ac]

\* mutant: the state change is posted a second time
set_ac_state_dobbel(state, temperature, v, p) ==
    IF v # "ok"
    THEN [ret |-> FALSE, calls |-> <<Get("pods", v)>>, ac |-> ac]
    ELSE IF state /\ temperature < MIN_TEMP
    THEN [ret |-> FALSE, calls |-> <<Get("pods", "ok")>>, ac |-> ac]
    ELSE LET target == IF state THEN temperature ELSE DEFAULT_TEMP
         IN  [ret |-> (p = "ok"),
              calls |-> <<Get("pods", "ok"), Post(state, target, p),
                          Post(state, target, p)>>,
              ac |-> IF p = "ok" THEN [on |-> state, temp |-> target] ELSE ac]

(***************************************************************************)
(* set_ac_state (app.py:45-96).  v is the outcome of the status query      *)
(* GET /users/me/pods, p the outcome of POST /pods/<id>/acStates.          *)
(* Returns the boolean result, the requests made and the acState the       *)
(* device API holds afterwards.                                            *)
(***************************************************************************)
set_ac_state(state, temperature, v, p) ==
    IF v # "ok"
    THEN \* app.py:59-65 raises, app.py:92-96 returns False
         [ret |-> FALSE, calls |-> <<Get("pods", v)>>, ac |-> ac]
    ELSE IF state /\ temperature < MIN_TEMP
    THEN \* app.py:68-70
         [ret |-> FALSE, calls |-> <<Get("pods", "ok")>>, ac |-> ac]
    ELSE LET target == IF state THEN temperature ELSE DEFAULT_TEMP   \* app.py:77
         IN  [ret |-> (p = "ok"),
              calls |-> <<Get("pods", "ok"), Post(state, target, p)>>,
              ac |-> IF p = "ok" THEN [on |-> state, temp |-> target] ELSE ac]

(***************************************************************************)
(* set_ac_temperature (app.py:99-130).                                     *)
(***************************************************************************)
set_ac_temperature(temperature, p) ==
    [ret |-> (p = "ok"),
     calls |-> <<Post(TRUE, temperature, p)>>,
     ac |-> IF p = "ok" THEN [on |-> TRUE, temp |-> temperature] ELSE ac]

(***************************************************************************)
(* The manual routes (app.py:172-182).  A view returns either a Response   *)
(* or the tuple (Response, 500); value records what the Python function    *)
(* returned, Truthy is Python's truth test on it.                          *)
(***************************************************************************)
Truthy(value) == IF value.kind = "tuple" THEN value.len > 0 ELSE TRUE

sla_av_varmepumpe(v, p) ==
    LET r == set_ac_state(FALSE, DEFAULT_TEMP, v, p)
    IN  [value |-> IF r.ret THEN [kind |-> "Response", len |-> 1, code |-> 200]
                            ELSE [kind |-> "tuple", len |-> 2, code |-> 500],
         calls |-> r.calls, ac |-> r.ac]

\* mutant: the on-route was copied from the off-route and still switches off
sla_pa_varmepumpe_av(v, p) == sla_av_varmepumpe(v, p)

sla_pa_varmepumpe(v, p) ==
    LET r == set_ac_state(TRUE, DEFAULT_TEMP, v, p)
    IN  [value |-> IF r.ret THEN [kind |-> "Response", len |-> 1, code |-> 200]
                            ELSE [kind |-> "tuple", len |-> 2, code |-> 500],
         calls |-> r.calls, ac |-> r.ac]

(***************************************************************************)
(* The price feed.  A reply of the feed is                                 *)
(*   outcome : ok / transport / http                                       *)
(*   body    : list / notlist (valid JSON, no list) / badjson              *)
(*   len     : number of entries of the list                               *)
(*   entry   : the entry at the current hour: ok / nokey (no SEK_per_kWh)  *)
(*             / null (SEK_per_kWh is null)                                *)
(*   sek     : SEK_per_kWh of that entry, in units of 0.00001 SEK          *)
(*   jsonerr : whether the installed requests raises its own               *)
(*             JSONDecodeError (a RequestException, requests >= 2.27) or   *)
(*             the json module's ValueError on a body that is no JSON      *)
(***************************************************************************)
\* round(sek * 100, 2) (app.py:150): hundredths of an ore, ties to even
nearest(s) ==
    LET q == s \div 10
        r == s % 10
    IN  IF r < 5 THEN q
        ELSE IF r > 5 THEN q + 1
        ELSE IF q % 2 = 0 THEN q ELSE q + 1

\* mutant: off by one in the length test
har_pris_off_by_one(feed, time) == feed.body = "list" /\ feed.len >= time

\* app.py:148
har_pris(feed, time) == feed.body = "list" /\ feed.len > time

\* mutant: inclusive comparisons, the thresholds themselves switch the device
terskel_sjekk_inklusiv(pris) ==
    IF FGe(Num(pris), pris_stopp) THEN "off"
    ELSE IF FLe(Num(pris), pris_start) THEN "on"
    ELSE "none"

\* mutant: the elif branch is missing, a low price switches nothing
terskel_sjekk_uten_start(pris) ==
    IF FGt(Num(pris), pris_stopp) THEN "off" ELSE "none"

\* app.py:154-161: which route function the cycle calls
terskel_sjekk(pris) ==
    IF FGt(Num(pris), pris_stopp) THEN "off"
    ELSE IF FLt(Num(pris), pris_start) THEN "on"
    ELSE "none"

NoCmd == [value |-> [kind |-> "none", len |-> 0, code |-> 0], calls |-> <<>>, ac |-> ac]

hent_strompris(time, feed, v, p) ==
    LET fget == <<Get("feed", feed.outcome)>>
        quiet(ret) == [ret |-> ret, pris |-> 0, cmd |-> "none", logg |-> {},
                       calls |-> fget, ac |-> ac]
    IN  IF feed.outcome # "ok" THEN quiet("None")                    \* app.py:168-170
        ELSE IF feed.body = "badjson"
        THEN IF feed.jsonerr = "RequestException" THEN quiet("None") \* app.py:168-170
             ELSE quiet("raise")                                     \* app.py:146
        ELSE IF ~har_pris(feed, time) THEN quiet("None")             \* app.py:164-166
        ELSE IF feed.entry # "ok" THEN quiet("raise")                \* app.py:149-150
        ELSE LET navaerende_pris == nearest(feed.sek)
                 cmd == terskel_sjekk(navaerende_pris)
                 r == CASE cmd = "off" -> sla_av_varmepumpe(v, p)
                        [] cmd = "on" -> sla_pa_varmepumpe(v, p)
                        [] OTHER -> NoCmd
                 logg == CASE cmd = "off" /\ Truthy(r.value) -> {"stopped due to high price"}
                           [] cmd = "on" /\ Truthy(r.value) -> {"started due to low price"}
                           [] OTHER -> {}
             IN  [ret |-> "price", pris |-> navaerende_pris, cmd |-> cmd,
                  logg |-> logg, calls |-> fget \o r.calls, ac |-> r.ac]

(***************************************************************************)
(* set_terskel (app.py:184-211).  Returns the values the two globals hold  *)
(* afterwards and the response.                                            *)
(***************************************************************************)
\* app.py:196
ikke_positiv(new_start, new_stopp) == FLe(new_start, Num(0)) \/ FLe(new_stopp, Num(0))

\* mutant: equal thresholds pass
ikke_lavere_streng(new_start, new_stopp) == FGt(new_start, new_stopp)

\* app.py:198
ikke_lavere(new_start, new_stopp) == FGe(new_start, new_stopp)

\* mutant: the second assignment is missing
lagre_bare_start(new_start, new_stopp) == [start |-> new_start, stopp |-> pris_stopp]

\* app.py:201-202
lagre(new_start, new_stopp) == [start |-> new_start, stopp |-> new_stopp]

set_terskel(data) ==
    LET avvis(body) == [start |-> pris_start, stopp |-> pris_stopp,
                        resp |-> [NoResp EXCEPT !.code = 400, !.body = body]]
    IN  IF ~data.given \/ ~data.has_start \/ ~data.has_stopp
        THEN avvis("Missing price thresholds")                       \* app.py:189-190
        ELSE IF ~float(data.start).ok \/ ~float(data.stopp).ok
        THEN avvis("Invalid threshold values")                       \* app.py:210-211
        ELSE LET new_start == float(data.start).val                  \* app.py:193
                 new_stopp == float(data.stopp).val                  \* app.py:194
                 ny == lagre(new_start, new_stopp)
             IN  IF ikke_positiv(new_start, new_stopp)
                 THEN avvis("Thresholds must be positive")
                 ELSE IF ikke_lavere(new_start, new_stopp)
                 THEN avvis("Start price must be lower than stop price")
                 ELSE [start |-> ny.start, stopp |-> ny.stopp,       \* app.py:201-208
                       resp |-> [NoResp EXCEPT !.code = 200,
                                               !.body = "Thresholds updated",
                                               !.start = ny.start,
                                               !.stop = ny.stopp]]

(***************************************************************************)
(* Inputs.                                                                 *)
(***************************************************************************)
Hours == {21}
Lens == 20 .. 20 + MaxLen
SekVals == {4500, 4996, 7500, 10004, 10006, 11000, 16000}

Feeds ==
    {[outcome |-> o, body |-> "none", len |-> 0, entry |-> "none", sek |-> 0,
      jsonerr |-> "none"] : o \in {"transport", "http"}}
    \cup {[outcome |-> "ok", body |-> "notlist", len |-> 0, entry |-> "none", sek |-> 0,
           jsonerr |-> "none"]}
    \cup {[outcome |-> "ok", body |-> "badjson", len |-> 0, entry |-> "none", sek |-> 0,
           jsonerr |-> j] : j \in {"RequestException", "ValueError"}}
    \cup {[outcome |-> "ok", body |-> "list", len |-> n, entry |-> e, sek |-> 0,
           jsonerr |-> "none"] : n \in Lens, e \in {"nokey", "null"}}
    \cup {[outcome |-> "ok", body |-> "list", len |-> n, entry |-> "ok", sek |-> x,
           jsonerr |-> "none"] : n \in Lens, x \in SekVals}

\* why the feed gave no price for the hour ("none": it gave one)
feil(feed, time) ==
    CASE feed.outcome # "ok" -> feed.outcome
      [] feed.body # "list" -> feed.body
      [] feed.len <= time -> "short"
      [] feed.entry # "ok" -> feed.entry
      [] OTHER -> "none"

TerskelVals == {500 * k : k \in 0 .. MaxTerskel}
JsonVals == {JNum(n) : n \in TerskelVals} \cup {JStr(500), JNaN, JTxt, JNull}
Bodies ==
    {NoReq, [NoReq EXCEPT !.given = TRUE]}
    \cup {[NoReq EXCEPT !.given = TRUE, !.has_start = TRUE, !.start = x] : x \in JsonVals}
    \cup {[NoReq EXCEPT !.given = TRUE, !.has_stopp = TRUE, !.stopp = y] : y \in JsonVals}
    \cup {[given |-> TRUE, has_start |-> TRUE, has_stopp |-> TRUE, start |-> x, stopp |-> y] :
            x \in JsonVals, y \in JsonVals}

\* outcomes of the status query and of the state change; the second is not
\* drawn when the first fails, since the POST is then never made
NetPairs ==
    {<<"ok", p>> : p \in Outcomes} \cup {<<v, "ok">> : v \in Outcomes \ {"ok"}}

\* MIN_TEMP and DEFAULT_TEMP as the environment may set them; <<10, 22>> are
\* the defaults of app.py:27-28
EnvConfigs == {<<10, 22>>, <<18, 8>>}

\* bodies of POST /api/set_temperature: the value of "temperature", or absent
TempVals == {JNum(15), JNum(16), JNum(31), JTxt, JNull}
TempBodies ==
    {[given |-> FALSE, temperature |-> JNull]}
    \cup {[given |-> TRUE, temperature |-> x] : x \in TempVals}

Threads == {1, 2}

NoLoc == [h |-> "none", pris |-> 0, cmd |-> "none", new_start |-> Num(0),
          new_stopp |-> Num(0), code |-> 0, start |-> Num(0), stop |-> Num(0)]

(***************************************************************************)
(* Initial state: module import (app.py:27-30), no request served yet.     *)
(***************************************************************************)
Init ==
    /\ \E e \in EnvConfigs : MIN_TEMP = e[1] /\ DEFAULT_TEMP = e[2]
    /\ pris_start = Num(500)
    /\ pris_stopp = Num(1000)
    /\ ac = [on |-> FALSE, temp |-> 22]
    /\ op = "init"
    /\ req = NoReq
    /\ calls = <<>>
    /\ hent = NoHent
    /\ resp = NoResp
    /\ pc = [t \in Threads |-> "idle"]
    /\ loc = [t \in Threads |-> NoLoc]

(***************************************************************************)
(* One request served from start to end.                                   *)
(***************************************************************************)
\* GET /api/strompris (app.py:225-239)
strompris ==
    \E time \in Hours, feed \in Feeds :
      \E n \in IF feil(feed, time) = "none" /\ terskel_sjekk(nearest(feed.sek)) # "none"
                THEN NetPairs ELSE {<<"ok", "ok">>} :
        LET r == hent_strompris(time, feed, n[1], n[2])
        IN  /\ op' = "strompris"
            /\ hent' = [ret |-> r.ret, pris |-> r.pris, cmd |-> r.cmd, logg |-> r.logg,
                        feil |-> feil(feed, time)]
            /\ calls' = r.calls
            /\ ac' = r.ac
            /\ resp' = CASE r.ret = "price" ->
                              [NoResp EXCEPT !.code = 200, !.body = "pris", !.pris = r.pris]
                         [] r.ret = "None" ->
                              [NoResp EXCEPT !.code = 500, !.body = "Kunne ikke hente strompris"]
                         [] OTHER ->
                              [NoResp EXCEPT !.code = 500, !.body = "exception"]
            /\ req' = NoReq
            /\ UNCHANGED <<MIN_TEMP, DEFAULT_TEMP, pris_start, pris_stopp, pc, loc>>

\* POST /api/sla_av_varmepumpe (app.py:172-176)
post_sla_av ==
    \E n \in NetPairs :
        LET r == sla_av_varmepumpe(n[1], n[2])
        IN  /\ op' = "sla_av"
            /\ calls' = r.calls
            /\ ac' = r.ac
            /\ resp' = [NoResp EXCEPT !.code = r.value.code, !.body = "sla_av"]
            /\ hent' = NoHent
            /\ req' = NoReq
            /\ UNCHANGED <<MIN_TEMP, DEFAULT_TEMP, pris_start, pris_stopp, pc, loc>>

\* POST /api/sla_pa_varmepumpe (app.py:178-182)
post_sla_pa ==
    \E n \in NetPairs :
        LET r == sla_pa_varmepumpe(n[1], n[2])
        IN  /\ op' = "sla_pa"
            /\ calls' = r.calls
            /\ ac' = r.ac
            /\ resp' = [NoResp EXCEPT !.code = r.value.code, !.body = "sla_pa"]
            /\ hent' = NoHent
            /\ req' = NoReq
            /\ UNCHANGED <<MIN_TEMP, DEFAULT_TEMP, pris_start, pris_stopp, pc, loc>>

\* POST /api/set_terskel (app.py:184-211)
post_set_terskel ==
    \E data \in Bodies :
        LET r == set_terskel(data)
        IN  /\ op' = "set_terskel"
            /\ req' = data
            /\ pris_start' = r.start
            /\ pris_stopp' = r.stopp
            /\ resp' = r.resp
            /\ calls' = <<>>
            /\ hent' = NoHent
            /\ UNCHANGED <<MIN_TEMP, DEFAULT_TEMP, ac, pc, loc>>

\* Python's int() on a JSON value (app.py:249)
int(x) ==
    CASE x.k \in {"num", "str"} -> [ok |-> TRUE, val |-> x.v, err |-> "none"]
      [] x.k \in {"txt", "nan"} -> [ok |-> FALSE, val |-> 0, err |-> "ValueError"]
      [] x.k = "null" -> [ok |-> FALSE, val |-> 0, err |-> "TypeError"]

\* POST /api/set_temperature (app.py:242-258)
set_temperature(data, p) ==
    LET done(code, body) == [resp |-> [NoResp EXCEPT !.code = code, !.body = body],
                             calls |-> <<>>, ac |-> ac]
    IN  IF ~data.given THEN done(400, "Missing temperature parameter")
        ELSE IF ~int(data.temperature).ok
        THEN IF int(data.temperature).err = "ValueError"
             THEN done(400, "Invalid temperature value")             \* app.py:257-258
             ELSE done(500, "exception")                             \* TypeError escapes
        ELSE LET temperature == int(data.temperature).val
             IN  IF ~(16 <= temperature /\ temperature <= 30)
                 THEN done(400, "Temperature must be between 16 and 30")
                 ELSE LET r == set_ac_temperature(temperature, p)
                      IN  [resp |-> [NoResp EXCEPT !.code = IF r.ret THEN 200 ELSE 500,
                                                   !.body = "set_temperature"],
                           calls |-> r.calls, ac |-> r.ac]

post_set_temperature ==
    \E data \in TempBodies, p \in Outcomes :
        LET r == set_temperature(data, p)
        IN  /\ op' = "set_temperature"
            /\ calls' = r.calls
            /\ ac' = r.ac
            /\ resp' = r.resp
            /\ hent' = NoHent
            /\ req' = NoReq
            /\ UNCHANGED <<MIN_TEMP, DEFAULT_TEMP, pris_start, pris_stopp, pc, loc>>

Next ==
    \/ strompris
    \/ post_sla_av
    \/ post_sla_pa
    \/ post_set_terskel
    \/ post_set_temperature

Spec == Init /\ [][Next]_vars

(***************************************************************************)
(* Requests served by concurrent threads (app.run, app.py:298, serves      *)
(* each request on its own thread).  Nothing in app.py takes a lock, so    *)
(* the statements of two handlers interleave; each action below is one     *)
(* statement (or one blocking HTTP call) of a handler run by thread t.     *)
(***************************************************************************)
ConcPriser == {nearest(x) : x \in {4500, 7500, 11000}}
ConcTerskler == {<<500 * a, 500 * b>> : a \in 0 .. MaxTerskel, b \in 1 .. MaxTerskel}

InFlight(t) == pc[t] \in {"cmp_stopp", "cmp_start", "verify", "post"}

\* app.py:229, 133-150: the thread enters hent_strompris and fetches the price
c_fetch(t) ==
    /\ pc[t] = "idle"
    /\ \/ \E x \in ConcPriser :
            /\ pc' = [pc EXCEPT ![t] = "cmp_stopp"]
            /\ loc' = [loc EXCEPT ![t] = [NoLoc EXCEPT !.h = "strompris", !.pris = x]]
       \/ /\ pc' = [pc EXCEPT ![t] = "done"]
          /\ loc' = [loc EXCEPT ![t] = [NoLoc EXCEPT !.h = "strompris", !.code = 500]]
    /\ UNCHANGED <<MIN_TEMP, DEFAULT_TEMP, pris_start, pris_stopp, ac, op, req, calls,
                   hent, resp>>

\* app.py:154: reads pris_stopp
c_cmp_stopp(t) ==
    /\ pc[t] = "cmp_stopp"
    /\ IF FGt(Num(loc[t].pris), pris_stopp)
       THEN /\ pc' = [pc EXCEPT ![t] = "verify"]
            /\ loc' = [loc EXCEPT ![t].cmd = "off", ![t].stop = pris_stopp]
       ELSE /\ pc' = [pc EXCEPT ![t] = "cmp_start"]
            /\ loc' = [loc EXCEPT ![t].stop = pris_stopp]
    /\ UNCHANGED <<MIN_TEMP, DEFAULT_TEMP, pris_start, pris_stopp, ac, op, req, calls,
                   hent, resp>>

\* app.py:158: reads pris_start
c_cmp_start(t) ==
    /\ pc[t] = "cmp_start"
    /\ IF FLt(Num(loc[t].pris), pris_start)
       THEN /\ pc' = [pc EXCEPT ![t] = "verify"]
            /\ loc' = [loc EXCEPT ![t].cmd = "on", ![t].start = pris_start]
       ELSE /\ pc' = [pc EXCEPT ![t] = "done"]
            /\ loc' = [loc EXCEPT ![t].start = pris_start, ![t].code = 200]
    /\ UNCHANGED <<MIN_TEMP, DEFAULT_TEMP, pris_start, pris_stopp, ac, op, req, calls,
                   hent, resp>>

\* app.py:59-70: status query, then the minimum temperature check
c_verify(t) ==
    /\ pc[t] = "verify"
    /\ \E v \in Outcomes :
        IF v # "ok" \/ (loc[t].cmd = "on" /\ DEFAULT_TEMP < MIN_TEMP)
        THEN /\ pc' = [pc EXCEPT ![t] = "done"]
             /\ loc' = [loc EXCEPT ![t].code = 200]
        ELSE /\ pc' = [pc EXCEPT ![t] = "post"]
             /\ loc' = loc
    /\ UNCHANGED <<MIN_TEMP, DEFAULT_TEMP, pris_start, pris_stopp, ac, op, req, calls,
                   hent, resp>>

\* app.py:81-90: the state change; app.py:163, 233: the cycle returns the price
c_post(t) ==
    /\ pc[t] = "post"
    /\ \E p \in Outcomes :
        ac' = IF p = "ok" THEN [on |-> (loc[t].cmd = "on"), temp |-> DEFAULT_TEMP] ELSE ac
    /\ pc' = [pc EXCEPT ![t] = "done"]
    /\ loc' = [loc EXCEPT ![t].code = 200]
    /\ UNCHANGED <<MIN_TEMP, DEFAULT_TEMP, pris_start, pris_stopp, op, req, calls,
                   hent, resp>>

\* app.py:187-199: the thread enters set_terskel with a body holding two numbers
t_validate(t) ==
    /\ pc[t] = "idle"
    /\ \E d \in ConcTerskler :
        LET new_start == float(JNum(d[1])).val
            new_stopp == float(JNum(d[2])).val
            mine == [NoLoc EXCEPT !.h = "set_terskel", !.new_start = new_start,
                                  !.new_stopp = new_stopp]
        IN  IF ikke_positiv(new_start, new_stopp) \/ ikke_lavere(new_start, new_stopp)
            THEN /\ pc' = [pc EXCEPT ![t] = "done"]
                 /\ loc' = [loc EXCEPT ![t] = [mine EXCEPT !.code = 400]]
            ELSE /\ pc' = [pc EXCEPT ![t] = "w_start"]
                 /\ loc' = [loc EXCEPT ![t] = mine]
    /\ UNCHANGED <<MIN_TEMP, DEFAULT_TEMP, pris_start, pris_stopp, ac, op, req, calls,
                   hent, resp>>

\* app.py:201
t_w_start(t) ==
    /\ pc[t] = "w_start"
    /\ pris_start' = loc[t].new_start
    /\ pc' = [pc EXCEPT ![t] = "w_stopp"]
    /\ UNCHANGED <<MIN_TEMP, DEFAULT_TEMP, pris_stopp, ac, op, req, calls, hent, resp, loc>>

\* app.py:202
t_w_stopp(t) ==
    /\ pc[t] = "w_stopp"
    /\ pris_stopp' = loc[t].new_stopp
    /\ pc' = [pc EXCEPT ![t] = "r_start"]
    /\ UNCHANGED <<MIN_TEMP, DEFAULT_TEMP, pris_start, ac, op, req, calls, hent, resp, loc>>

\* app.py:206: the response reads the global pris_start
t_r_start(t) ==
    /\ pc[t] = "r_start"
    /\ loc' = [loc EXCEPT ![t].start = pris_start]
    /\ pc' = [pc EXCEPT ![t] = "r_stopp"]
    /\ UNCHANGED <<MIN_TEMP, DEFAULT_TEMP, pris_start, pris_stopp, ac, op, req, calls,
                   hent, resp>>

\* app.py:207-208: the response reads the global pris_stopp and is returned
t_r_stopp(t) ==
    /\ pc[t] = "r_stopp"
    /\ loc' = [loc EXCEPT ![t].stop = pris_stopp, ![t].code = 200]
    /\ pc' = [pc EXCEPT ![t] = "done"]
    /\ UNCHANGED <<MIN_TEMP, DEFAULT_TEMP, pris_start, pris_stopp, ac, op, req, calls,
                   hent, resp>>

\* the response has been sent; the thread is free to serve the next request
c_free(t) ==
    /\ pc[t] = "done"
    /\ pc' = [pc EXCEPT ![t] = "idle"]
    /\ loc' = [loc EXCEPT ![t] = NoLoc]
    /\ UNCHANGED <<MIN_TEMP, DEFAULT_TEMP, pris_start, pris_stopp, ac, op, req, calls,
                   hent, resp>>

NextConc ==
    \E t \in Threads :
        \/ c_fetch(t)
        \/ c_cmp_stopp(t)
        \/ c_cmp_start(t)
        \/ c_verify(t)
        \/ c_post(t)
        \/ t_validate(t)
        \/ t_w_start(t)
        \/ t_w_stopp(t)
        \/ t_r_start(t)
        \/ t_r_stopp(t)
        \/ c_free(t)

SpecConc == Init /\ [][NextConc]_vars

(***************************************************************************)
(* Properties.                                                             *)
(***************************************************************************)
DeviceCalls == {i \in 1 .. Len(calls) : calls[i].url \in {"pods", "acStates"}}
PostCalls == {i \in 1 .. Len(calls) : calls[i].method = "POST"}

\* the decision of the hysteresis rule, stated on its own
Holder(p, start, stopp) == FLe(start, Num(p)) /\ FLe(Num(p), stopp)

\* C1: with stored thresholds start < stop, a cycle that fetched price p calls
\* the on-route (set_ac_state(True), every state change it sends has on = true)
\* when p < start, the off-route when p > stop, and makes no request to the
\* device at all when start <= p <= stop, so the device state stays as it was.
C1_Hysterese ==
    [][(op' = "strompris" /\ hent'.ret = "price" /\ FLt(pris_start, pris_stopp)) =>
         /\ FLt(Num(hent'.pris), pris_start) =>
               /\ hent'.cmd = "on"
               /\ Len(calls') >= 2
               /\ \A i \in 1 .. Len(calls') : calls'[i].method = "POST" => calls'[i].on
         /\ FGt(Num(hent'.pris), pris_stopp) =>
               /\ hent'.cmd = "off"
               /\ Len(calls') >= 2
               /\ \A i \in 1 .. Len(calls') : calls'[i].method = "POST" => ~calls'[i].on
         /\ Holder(hent'.pris, pris_start, pris_stopp) =>
               /\ hent'.cmd = "none"
               /\ Len(calls') = 1
               /\ calls'[1].url = "feed"
               /\ ac' = ac]_vars

\* a cycle whose price equals the start threshold left the device alone
C1_Witness ==
    /\ op = "strompris"
    /\ hent.ret = "price"
    /\ FLt(pris_start, pris_stopp)
    /\ Num(hent.pris) = pris_start
    /\ hent.cmd = "none"
    /\ Len(calls) = 1

\* the body of a threshold update is one the claim calls invalid: a field is
\* missing, a value is no number for float(), a value is <= 0, or start >= stop
Ugyldig(d) ==
    \/ ~d.given \/ ~d.has_start \/ ~d.has_stopp
    \/ d.start.k \in {"txt", "null"} \/ d.stopp.k \in {"txt", "null"}
    \/ /\ d.start.k \in {"num", "str"}
       /\ d.stopp.k \in {"num", "str"}
       /\ (d.start.v <= 0 \/ d.stopp.v <= 0 \/ d.start.v >= d.stopp.v)

C3_StartUnderStopp ==
    /\ FLt(pris_start, pris_stopp)
    /\ FGt(pris_start, Num(0))
    /\ FGt(pris_stopp, Num(0))

\* the body of a threshold update holds two numbers with 0 < start < stop
Gyldig(d) ==
    /\ d.given /\ d.has_start /\ d.has_stopp
    /\ d.start.k \in {"num", "str"}
    /\ d.stopp.k \in {"num", "str"}
    /\ 0 < d.start.v /\ d.start.v < d.stopp.v

\* C4: a threshold update with 0 < start < stop is answered 200 with the
\* submitted pair, the stored thresholds are then that pair, nothing but an
\* accepted update changes them, and every cycle decides against the stored pair.
C4_Akseptert ==
    [][/\ (op' = "set_terskel" /\ Gyldig(req')) =>
            /\ resp'.code = 200
            /\ pris_start' = Num(req'.start.v) /\ pris_stopp' = Num(req'.stopp.v)
            /\ resp'.start = Num(req'.start.v) /\ resp'.stop = Num(req'.stopp.v)
       /\ (pris_start' # pris_start \/ pris_stopp' # pris_stopp) =>
            (op' = "set_terskel" /\ resp'.code = 200)
       /\ (op' = "strompris" /\ hent'.ret = "price") =>
            /\ hent'.cmd = "on" <=> (FLt(Num(hent'.pris), pris_start')
                                       /\ ~FGt(Num(hent'.pris), pris_stopp'))
            /\ hent'.cmd = "off" <=> FGt(Num(hent'.pris), pris_stopp')]_vars

\* after the thresholds were moved to (10, 15), a cycle at 7.50 switched on
C4_Witness ==
    /\ op = "strompris"
    /\ pris_start = Num(1000) /\ pris_stopp = Num(1500)
    /\ hent.ret = "price" /\ hent.pris = 750
    /\ hent.cmd = "on"

\* C5: when the feed gives no price for the hour (request error, too few
\* entries, or any other unusable reply) the cycle makes no request to the
\* device, decides nothing and leaves the device state alone.
C5_IngenPrisIngenKommando ==
    [][(op' = "strompris" /\ hent'.feil # "none") =>
         /\ hent'.ret # "price"
         /\ hent'.cmd = "none"
         /\ Len(calls') = 1 /\ calls'[1].url = "feed"
         /\ ac' = ac]_vars

\* the feed was too short for the hour and the cycle ended without a command
C5_Witness ==
    /\ op = "strompris"
    /\ hent.feil = "short"
    /\ hent.ret = "None"
    /\ DeviceCalls = {}

\* C6: whatever way the feed fails, hent_strompris returns None and does not
\* raise.
C6_AldriUnntak ==
    (op = "strompris" /\ hent.feil # "none") => hent.ret = "None"

\* C7: set_ac_state(True, T) with T < MIN_TEMP makes no network call.
C7_IngenKall ==
    (op = "sla_pa" /\ DEFAULT_TEMP < MIN_TEMP) => calls = <<>>

\* C8: at most one thread is between the price fetch and the end of its
\* device command.
C8_EnSyklus ==
    Cardinality({t \in Threads : InFlight(t)}) <= 1

\* C9: when two accepted threshold updates have both finished, the stored pair
\* is the pair of one of them.
C9_EttPar ==
    (\A t \in Threads : pc[t] = "done" /\ loc[t].h = "set_terskel" /\ loc[t].code = 200) =>
        \E t \in Threads :
            pris_start = loc[t].new_start /\ pris_stopp = loc[t].new_stopp

\* C10: a state change of set_ac_state that failed with a transport error was
\* sent more than once, and one that got a non-2xx answer exactly once.
C10_NyttForsok ==
    op \in {"strompris", "sla_av", "sla_pa"} =>
        /\ (\E i \in PostCalls : calls[i].outcome = "transport") =>
               Cardinality(PostCalls) >= 2
        /\ (\E i \in PostCalls : calls[i].outcome = "http") =>
               Cardinality(PostCalls) = 1

\* the last handler got a 2xx answer to a state change
PostOk == \E i \in PostCalls : calls[i].outcome = "ok"

\* C11: when the status query of set_ac_state fails, the state change of a
\* safe request (off, or on at a temperature not below MIN_TEMP) is still sent.
C11_SporringRadgivende ==
    (/\ op \in {"sla_av", "sla_pa"}
     /\ calls # <<>>
     /\ calls[1].url = "pods" /\ calls[1].outcome # "ok"
     /\ (op = "sla_pa" => DEFAULT_TEMP >= MIN_TEMP))
        => PostCalls # {}

\* C12: a cycle whose device command failed answers /api/strompris differently
\* from a cycle at the same price whose command succeeded (200 with the price).
C12_FeilMeldes ==
    (op = "strompris" /\ hent.cmd # "none" /\ \E i \in DeviceCalls : calls[i].outcome # "ok") =>
        resp # [NoResp EXCEPT !.code = 200, !.body = "pris", !.pris = hent.pris]

\* C18: a cycle logs "stopped due to high price" or "started due to low
\* price" only when set_ac_state returned True, i.e. its state change got 2xx.
C18_LoggKunVedSuksess ==
    (op = "strompris" /\ hent.logg # {}) => PostOk

\* C19: no state change with on = true and a target temperature below
\* MIN_TEMP is sent, by any handler, under any configured MIN_TEMP.
C19_AldriUnderMinTemp ==
    \A i \in PostCalls : calls[i].on => calls[i].temp >= MIN_TEMP

(***************************************************************************)
(* Process restart.  The module is imported again: app.py:29-30 assign the *)
(* thresholds from the environment; app.py writes them to no file or       *)
(* database anywhere, so nothing else is read back.  The environment, and  *)
(* the state of the remote device, outlive the process.                    *)
(***************************************************************************)
restart ==
    /\ pris_start' = Num(500)
    /\ pris_stopp' = Num(1000)
    /\ op' = "init"
    /\ req' = NoReq
    /\ calls' = <<>>
    /\ hent' = NoHent
    /\ resp' = NoResp
    /\ UNCHANGED <<MIN_TEMP, DEFAULT_TEMP, ac, pc, loc>>

NextRestart ==
    \/ Next
    \/ restart

SpecRestart == Init /\ [][NextRestart]_vars

\* C13: a restart that follows an accepted threshold update leaves the updated
\* pair in place for the next cycle.
C13_OverleverOmstart ==
    [][(op = "set_terskel" /\ resp.code = 200 /\ op' = "init") =>
         (pris_start' = pris_start /\ pris_stopp' = pris_stopp)]_vars

\* a cycle priced at 4.50 ran against the thresholds 5 and 10
Scenario450 ==
    /\ op' = "strompris"
    /\ hent'.ret = "price" /\ hent'.pris = 450
    /\ pris_start = Num(500) /\ pris_stopp = Num(1000)

\* C14 as stated: at thresholds 5 and 10 a cycle priced at 4.50 holds the
\* device state; an off device gets no on-command, an on device stays on.
C14_HolderVed450 ==
    [][Scenario450 =>
         /\ ac'.on = ac.on
         /\ ~ac.on => \A i \in 1 .. Len(calls') : ~calls'[i].on]_vars

\* C14 as amended: at thresholds 5 and 10 a cycle priced at 4.50 calls the
\* on-route (4.50 < 5); a device that was on stays on, a device that was off
\* is on afterwards exactly when the state change got 2xx, and every state
\* change sent carries on = true at DEFAULT_TEMP.
C14_SlaarPaaVed450 ==
    [][Scenario450 =>
         /\ hent'.cmd = "on"
         /\ Len(calls') >= 2 /\ calls'[2].url = "pods"
         /\ \A i \in 1 .. Len(calls') :
               calls'[i].method = "POST" => (calls'[i].on /\ calls'[i].temp = DEFAULT_TEMP)
         /\ ac.on => ac'.on
         /\ (\E i \in 1 .. Len(calls') :
               calls'[i].method = "POST" /\ calls'[i].outcome = "ok") => ac'.on
         /\ ~(\E i \in 1 .. Len(calls') :
               calls'[i].method = "POST" /\ calls'[i].outcome = "ok") => ac' = ac]_vars

\* a cycle at 4.50 against 5 and 10 switched the device on
C14_Witness ==
    /\ op = "strompris"
    /\ hent.ret = "price" /\ hent.pris = 450
    /\ pris_start = Num(500) /\ pris_stopp = Num(1000)
    /\ hent.cmd = "on"
    /\ PostOk
    /\ ac.on

\* C15: a manual on/off request fetches no price, leaves the thresholds as
\* they are and goes to set_ac_state with the requested state: the first
\* request is the status query, every state change carries the requested on
\* flag, and the state change is sent whenever the status query succeeds and
\* set_ac_state does not refuse the temperature.
C15_ManuellOverstyring ==
    [][op' \in {"sla_av", "sla_pa"} =>
         /\ pris_start' = pris_start /\ pris_stopp' = pris_stopp
         /\ hent' = NoHent
         /\ \A i \in 1 .. Len(calls') : calls'[i].url # "feed"
         /\ calls' # <<>> /\ calls'[1].url = "pods"
         /\ \A i \in 1 .. Len(calls') :
               calls'[i].method = "POST" => (calls'[i].on <=> op' = "sla_pa")
         /\ (calls'[1].outcome = "ok" /\ (op' = "sla_pa" => DEFAULT_TEMP >= MIN_TEMP)) =>
               (Len(calls') = 2 /\ calls'[2].method = "POST")]_vars

\* the device was switched on by hand although the thresholds are 10 and 15
C15_Witness ==
    /\ op = "sla_pa"
    /\ pris_start = Num(1000) /\ pris_stopp = Num(1500)
    /\ PostOk
    /\ ac = [on |-> TRUE, temp |-> DEFAULT_TEMP]

\* C16: a successful on-command leaves the commanded state at (on,
\* DEFAULT_TEMP) and a successful off-command at (off, DEFAULT_TEMP) whatever
\* it was before, so a second successful command of the same kind changes
\* nothing.
C16_Idempotent ==
    [][/\ (op' = "sla_pa" /\ resp'.code = 200) =>
            /\ ac' = [on |-> TRUE, temp |-> DEFAULT_TEMP]
            /\ (op = "sla_pa" /\ resp.code = 200) => ac' = ac
       /\ (op' = "sla_av" /\ resp'.code = 200) =>
            /\ ac' = [on |-> FALSE, temp |-> DEFAULT_TEMP]
            /\ (op = "sla_av" /\ resp.code = 200) => ac' = ac]_vars

\* an on-command succeeded on a device that set_temperature had left at 16
C16_Witness ==
    /\ op = "sla_pa"
    /\ resp.code = 200
    /\ Cardinality(PostCalls) = 1
    /\ ac = [on |-> TRUE, temp |-> DEFAULT_TEMP]

\* C17: a cycle starts with the price fetch; it talks to the device only
\* after that fetch gave a price and the comparison chose a command; it sends
\* at most one state change; and it always ends with a response, whatever
\* the fetch and the command did.
C17_Syklus ==
    op = "strompris" =>
        /\ calls # <<>> /\ calls[1].url = "feed"
        /\ \A i \in DeviceCalls : i > 1
        /\ DeviceCalls # {} =>
              /\ calls[1].outcome = "ok"
              /\ hent.feil = "none" /\ hent.ret = "price"
              /\ hent.cmd # "none"
        /\ Cardinality(PostCalls) <= 1
        /\ resp.code \in {200, 500}
        /\ hent.ret \in {"price", "None", "raise"}

\* a cycle fetched a price, decided to switch off and its state change failed
C17_Witness ==
    /\ op = "strompris"
    /\ hent.cmd = "off"
    /\ Len(calls) = 3
    /\ calls[3].method = "POST" /\ calls[3].outcome = "http"
    /\ resp.code = 200

\* the pairs that the start-up values and the accepted updates can store
KonsistentePar ==
    {<<500, 1000>>} \cup {d \in ConcTerskler : 0 < d[1] /\ d[1] < d[2]}

\* C20: a cycle that has read both thresholds (app.py:154, 158) compared the
\* price against the start and the stop of one pair: the pair it read is the
\* start-up pair or a pair some update submitted, never a start and a stop
\* that no one stored together.
C20_EttParISyklus ==
    \A t \in Threads :
        (/\ loc[t].h = "strompris"
         /\ pc[t] \in {"verify", "post", "done"}
         /\ loc[t].cmd # "off"
         /\ loc[t].code # 500)
            => <<loc[t].start.v, loc[t].stop.v>> \in KonsistentePar

====
